---------------------------- MODULE Spec2Model ----------------------------
(***************************************************************************)
(* A model of process_pdfs.py: the heading/title inference of              *)
(* extract_pdfminer_outline, its helpers, and the batch driver             *)
(* process_pdfs.                                                           *)
(*                                                                         *)
(* Representation.                                                         *)
(*   - A Python str is a sequence of one-character strings.                *)
(*   - A Python float that is a mean of font sizes is an exact rational    *)
(*     [num, den] with den > 0; the font sizes and y0 coordinates of the   *)
(*     model are integers, for which the float sums and quotients of the   *)
(*     code compare with the thresholds exactly as the rationals do.       *)
(*   - Optional[str] is a sequence of length 0 (None) or 1.                *)
(***************************************************************************)
EXTENDS Integers, Sequences, FiniteSets

(***************************************************************************)
(* Bounds of the model.                                                    *)
(***************************************************************************)
\* pages of a document
MaxPages == 2
\* text elements of a document, over all its pages
MaxFragments == 3
\* boxes handed to group_boxes_by_y in SpecGroup
MaxGroupBoxes == 3
\* numerator of an average font size in SpecLevel
MaxSizeNum == 40
\* documents of a batch in SpecBatch
MaxDocs == 2

(***************************************************************************)
(* Configuration (process_pdfs.py lines 11-21).                            *)
(***************************************************************************)
\* the dict, in insertion order (the order .items() iterates in)
FONT_THRESHOLDS ==
    << [level |-> "H1", size |-> 16], [level |-> "H2", size |-> 14],
       [level |-> "H3", size |-> 12], [level |-> "H4", size |-> 10] >>

MAX_PAGES == 50
Y_THRESHOLD == 8
MIN_TEXT_LENGTH == 4
TITLE_MIN_FONT_SIZE == 9

\* FONT_THRESHOLDS["H3"] and FONT_THRESHOLDS["H4"]
Threshold(level) ==
    LET i == CHOOSE k \in 1..Len(FONT_THRESHOLDS) : FONT_THRESHOLDS[k].level = level
    IN  FONT_THRESHOLDS[i].size

(***************************************************************************)
(* Strings.                                                                *)
(***************************************************************************)
UpperLetters ==
    << "A","B","C","D","E","F","G","H","I","J","K","L","M",
       "N","O","P","Q","R","S","T","U","V","W","X","Y","Z" >>
LowerLetters ==
    << "a","b","c","d","e","f","g","h","i","j","k","l","m",
       "n","o","p","q","r","s","t","u","v","w","x","y","z" >>

Range(s) == { s[i] : i \in 1..Len(s) }

IsUpperChar(c) == c \in Range(UpperLetters)
IsLowerChar(c) == c \in Range(LowerLetters)
IsCased(c) == IsUpperChar(c) \/ IsLowerChar(c)

LowerChar(c) ==
    IF IsUpperChar(c)
    THEN LowerLetters[CHOOSE i \in 1..26 : UpperLetters[i] = c]
    ELSE c
UpperChar(c) ==
    IF IsLowerChar(c)
    THEN UpperLetters[CHOOSE i \in 1..26 : LowerLetters[i] = c]
    ELSE c

\* str.lower()
Lower(t) == [i \in 1..Len(t) |-> LowerChar(t[i])]

\* the characters str.strip() removes and \s matches
Whitespace == { " ", "\n", "\t" }
Digits == { "0","1","2","3","4","5","6","7","8","9" }
\* the class [\d\s\-ENDASH.():] of the exclusion pattern; "ENDASH" stands for U+2013
NumPunctClass == Digits \cup Whitespace \cup { "-", "ENDASH", ".", "(", ")", ":" }

RECURSIVE LStrip(_)
LStrip(t) == IF t # <<>> /\ Head(t) \in Whitespace THEN LStrip(Tail(t)) ELSE t
RECURSIVE RStrip(_)
RStrip(t) ==
    IF t # <<>> /\ t[Len(t)] \in Whitespace THEN RStrip(SubSeq(t, 1, Len(t) - 1)) ELSE t
\* str.strip()
Strip(t) == RStrip(LStrip(t))

\* re.match(r'^[\d\s\-ENDASH.():]+$', t): one or more characters, all of the class;
\* the $ also matches before one trailing newline, itself of the class
MatchesNumPunct(t) == Len(t) >= 1 /\ \A i \in 1..Len(t) : t[i] \in NumPunctClass

\* sep.join(parts)
RECURSIVE Join(_, _)
Join(sep, parts) ==
    IF parts = <<>> THEN <<>>
    ELSE IF Len(parts) = 1 THEN parts[1]
    ELSE parts[1] \o sep \o Join(sep, Tail(parts))

\* str.replace(old, new) for a one-character old
ReplaceChar(t, old, new) == [i \in 1..Len(t) |-> IF t[i] = old THEN new ELSE t[i]]

\* str.replace(old, ""): every non-overlapping occurrence, left to right
RECURSIVE RemoveAll(_, _)
RemoveAll(t, old) ==
    IF Len(t) < Len(old) THEN t
    ELSE IF SubSeq(t, 1, Len(old)) = old
         THEN RemoveAll(SubSeq(t, Len(old) + 1, Len(t)), old)
         ELSE <<Head(t)>> \o RemoveAll(Tail(t), old)

\* str.title(): a cased character is upper-cased after an uncased one (or at the
\* start) and lower-cased after a cased one
TitleCase(t) ==
    [i \in 1..Len(t) |->
        IF i > 1 /\ IsCased(t[i - 1]) THEN LowerChar(t[i]) ELSE UpperChar(t[i])]

EXCLUDED_HEADINGS ==
    { <<"f","i","g","u","r","e">>, <<"t","a","b","l","e">>,
      <<"a","p","p","e","n","d","i","x">> }

(***************************************************************************)
(* Means of font sizes, as rationals.                                      *)
(***************************************************************************)
RECURSIVE SumSeq(_)
SumSeq(s) == IF s = <<>> THEN 0 ELSE Head(s) + SumSeq(Tail(s))

Rat(n, d) == [num |-> n, den |-> d]
RatGE(a, b) == a.num * b.den >= b.num * a.den
RatGT(a, b) == a.num * b.den > b.num * a.den
RatAdd(a, b) == Rat(a.num * b.den + b.num * a.den, a.den * b.den)
RECURSIVE RatSum(_)
RatSum(s) == IF s = <<>> THEN Rat(0, 1) ELSE RatAdd(Head(s), RatSum(Tail(s)))

\* sum(sizes) / len(sizes) if sizes else 0.0, of an element's LTChar sizes
average_fontsize(element) ==
    IF element.sizes = <<>> THEN Rat(0, 1)
    ELSE Rat(SumSeq(element.sizes), Len(element.sizes))

(***************************************************************************)
(* The classifier.                                                         *)
(***************************************************************************)
\* is_heading with the size floor at the lowest threshold of the table, H4
is_heading_H4(text, avg_size) ==
    LET t == Lower(Strip(text))
    IN  /\ Len(t) >= MIN_TEXT_LENGTH
        /\ RatGE(avg_size, Rat(Threshold("H4"), 1))
        /\ ~MatchesNumPunct(t)
        /\ t \notin EXCLUDED_HEADINGS

is_heading(text, avg_size) ==
    LET t == Lower(Strip(text))
    IN  /\ Len(t) >= MIN_TEXT_LENGTH
        /\ RatGE(avg_size, Rat(Threshold("H3"), 1))
        /\ ~MatchesNumPunct(t)
        /\ t \notin EXCLUDED_HEADINGS

is_potential_title(text, avg_size) ==
    LET t == Strip(text)
    IN  /\ Len(t) >= MIN_TEXT_LENGTH
        /\ RatGE(avg_size, Rat(TITLE_MIN_FONT_SIZE, 1))
        /\ ~MatchesNumPunct(t)

NoLevel == "None"

\* get_heading_level taking the last matching entry of the table, not the first
get_heading_level_LastMatch(avg_size) ==
    LET hits == { i \in 1..Len(FONT_THRESHOLDS) :
                    RatGE(avg_size, Rat(FONT_THRESHOLDS[i].size, 1)) }
    IN  IF hits = {} THEN NoLevel
        ELSE FONT_THRESHOLDS[CHOOSE i \in hits : \A j \in hits : i >= j].level

\* next((level for level, size in FONT_THRESHOLDS.items() if avg_size >= size), None)
get_heading_level(avg_size) ==
    LET hits == { i \in 1..Len(FONT_THRESHOLDS) :
                    RatGE(avg_size, Rat(FONT_THRESHOLDS[i].size, 1)) }
    IN  IF hits = {} THEN NoLevel
        ELSE FONT_THRESHOLDS[CHOOSE i \in hits : \A j \in hits : i <= j].level

(***************************************************************************)
(* group_boxes_by_y.                                                       *)
(***************************************************************************)
Abs(x) == IF x < 0 THEN 0 - x ELSE x

\* insert box b into the y0-descending sequence s after every box whose y0 is
\* greater than or equal to b's
RECURSIVE InsertDescending(_, _)
InsertDescending(s, b) ==
    IF s = <<>> THEN <<b>>
    ELSE IF Head(s).y0 >= b.y0 THEN <<Head(s)>> \o InsertDescending(Tail(s), b)
    ELSE <<b>> \o s

\* sorted(boxes, key=lambda b: b['y0'], reverse=True): stable, equal keys keep
\* their input order
RECURSIVE SortedByY0Descending(_)
SortedByY0Descending(boxes) ==
    IF boxes = <<>> THEN <<>>
    ELSE InsertDescending(SortedByY0Descending(SubSeq(boxes, 1, Len(boxes) - 1)),
                         boxes[Len(boxes)])

\* the loop with last_y updated only when a group is opened: each box is compared
\* with the first box of the current group
RECURSIVE GroupLoopFromFirst(_, _, _, _, _)
GroupLoopFromFirst(rest, groups, current_group, last_y, y_thresh) ==
    IF rest = <<>> THEN <<groups, current_group>>
    ELSE LET box == Head(rest)
         IN  IF Abs(box.y0 - last_y) <= y_thresh
             THEN GroupLoopFromFirst(Tail(rest), groups, Append(current_group, box),
                                     last_y, y_thresh)
             ELSE GroupLoopFromFirst(Tail(rest), Append(groups, current_group), <<box>>,
                                     box.y0, y_thresh)

\* the for loop of lines 51-57 over the boxes still to visit
RECURSIVE GroupLoop(_, _, _, _, _)
GroupLoop(rest, groups, current_group, last_y, y_thresh) ==
    IF rest = <<>> THEN <<groups, current_group>>
    ELSE LET box == Head(rest)
         IN  IF Abs(box.y0 - last_y) <= y_thresh
             THEN GroupLoop(Tail(rest), groups, Append(current_group, box),
                            box.y0, y_thresh)
             ELSE GroupLoop(Tail(rest), Append(groups, current_group), <<box>>,
                            box.y0, y_thresh)

group_boxes_by_y(boxes, y_thresh) ==
    IF boxes = <<>> THEN <<>>
    ELSE LET sorted == SortedByY0Descending(boxes)
             out == GroupLoop(Tail(sorted), <<>>, <<sorted[1]>>, sorted[1].y0, y_thresh)
         IN  IF out[2] # <<>> THEN Append(out[1], out[2]) ELSE out[1]

(***************************************************************************)
(* extract_pdfminer_outline: the loop body and the finalisation.           *)
(***************************************************************************)
\* lines 81-85: the boxes of one page layout; an element is
\* [text |-> get_text(), sizes |-> the sizes of its LTChars, y0 |-> y0]
Boxes(layout) ==
    LET kept == SelectSeq(layout,
                    LAMBDA e : RatGT(average_fontsize(e), Rat(TITLE_MIN_FONT_SIZE, 1)))
    IN  [i \in 1..Len(kept) |->
            [text |-> Strip(kept[i].text), size |-> average_fontsize(kept[i]),
             y0 |-> kept[i].y0]]

\* line 91
MergedText(group) == Join(<<"\n">>, [i \in 1..Len(group) |-> group[i].text])
\* line 92
AvgSize(group) ==
    LET s == RatSum([i \in 1..Len(group) |-> group[i].size])
    IN  Rat(s.num, s.den * Len(group))
\* line 107
MinY0(group) ==
    CHOOSE y \in { group[i].y0 : i \in 1..Len(group) } :
        \A i \in 1..Len(group) : y <= group[i].y0

None == <<>>
Some(x) == <<x>>
\* the truth value Python gives an Optional[str]
Truthy(opt) == opt # None /\ opt[1] # <<>>

\* lines 76-78
InitialLoopState ==
    [outline |-> <<>>, title_candidate |-> None, largest_size |-> Rat(0, 1),
     is_first_text |-> TRUE]

\* the loop body without the page_num == 0 test of line 94
ProcessGroup_TitleAnyPage(st, group, page_num) ==
    IF group = <<>> THEN st
    ELSE
      LET merged_text == MergedText(group)
          avg_size == AvgSize(group)
      IN  IF st.is_first_text /\ is_potential_title(merged_text, avg_size)
          THEN LET st1 == IF RatGT(avg_size, st.largest_size)
                          THEN [st EXCEPT !.title_candidate = Some(merged_text),
                                          !.largest_size = avg_size]
                          ELSE st
               IN  [st1 EXCEPT !.is_first_text = FALSE]
          ELSE IF is_heading(merged_text, avg_size)
               THEN LET level == get_heading_level(avg_size)
                    IN  IF level # NoLevel
                        THEN [st EXCEPT !.outline = Append(@,
                                 [level |-> level, text |-> merged_text,
                                  page |-> page_num + 1, y0 |-> MinY0(group)])]
                        ELSE st
               ELSE st

\* the loop body without line 97: is_first_text is never cleared
ProcessGroup_NoLock(st, group, page_num) ==
    IF group = <<>> THEN st
    ELSE
      LET merged_text == MergedText(group)
          avg_size == AvgSize(group)
      IN  IF page_num = 0 /\ st.is_first_text /\ is_potential_title(merged_text, avg_size)
          THEN LET st1 == IF RatGT(avg_size, st.largest_size)
                          THEN [st EXCEPT !.title_candidate = Some(merged_text),
                                          !.largest_size = avg_size]
                          ELSE st
               IN  st1
          ELSE IF is_heading(merged_text, avg_size)
               THEN LET level == get_heading_level(avg_size)
                    IN  IF level # NoLevel
                        THEN [st EXCEPT !.outline = Append(@,
                                 [level |-> level, text |-> merged_text,
                                  page |-> page_num + 1, y0 |-> MinY0(group)])]
                        ELSE st
               ELSE st

\* the loop body without the continue of line 98: the cluster taken by the title
\* check falls through to heading classification
ProcessGroup_TitleAlsoHeading(st, group, page_num) ==
    IF group = <<>> THEN st
    ELSE
      LET merged_text == MergedText(group)
          avg_size == AvgSize(group)
      IN  IF page_num = 0 /\ st.is_first_text /\ is_potential_title(merged_text, avg_size)
          THEN LET st1 == IF RatGT(avg_size, st.largest_size)
                          THEN [st EXCEPT !.title_candidate = Some(merged_text),
                                          !.largest_size = avg_size]
                          ELSE st
               IN  IF is_heading(merged_text, avg_size)
                   THEN [st1 EXCEPT !.is_first_text = FALSE,
                                    !.outline = Append(@,
                                        [level |-> get_heading_level(avg_size),
                                         text |-> merged_text, page |-> page_num + 1,
                                         y0 |-> MinY0(group)])]
                   ELSE [st1 EXCEPT !.is_first_text = FALSE]
          ELSE IF is_heading(merged_text, avg_size)
               THEN LET level == get_heading_level(avg_size)
                    IN  IF level # NoLevel
                        THEN [st EXCEPT !.outline = Append(@,
                                 [level |-> level, text |-> merged_text,
                                  page |-> page_num + 1, y0 |-> MinY0(group)])]
                        ELSE st
               ELSE st

\* lines 88-108: the body of the loop over the groups of page page_num (0-based)
ProcessGroup(st, group, page_num) ==
    IF group = <<>> THEN st
    ELSE
      LET merged_text == MergedText(group)
          avg_size == AvgSize(group)
      IN  IF page_num = 0 /\ st.is_first_text /\ is_potential_title(merged_text, avg_size)
          THEN LET st1 == IF RatGT(avg_size, st.largest_size)
                          THEN [st EXCEPT !.title_candidate = Some(merged_text),
                                          !.largest_size = avg_size]
                          ELSE st
               IN  [st1 EXCEPT !.is_first_text = FALSE]
          ELSE IF is_heading(merged_text, avg_size)
               THEN LET level == get_heading_level(avg_size)
                    IN  IF level # NoLevel
                        THEN [st EXCEPT !.outline = Append(@,
                                 [level |-> level, text |-> merged_text,
                                  page |-> page_num + 1, y0 |-> MinY0(group)])]
                        ELSE st
               ELSE st

\* the key (page, y0): bottom to top within a page
KeyLE_AscendingY0(a, b) == a.page < b.page \/ (a.page = b.page /\ a.y0 <= b.y0)

\* the sort key of line 110, (page, -y0), compared as Python compares tuples
KeyLE(a, b) == a.page < b.page \/ (a.page = b.page /\ (0 - a.y0) <= (0 - b.y0))

RECURSIVE InsertByKey(_, _)
InsertByKey(s, e) ==
    IF s = <<>> THEN <<e>>
    ELSE IF KeyLE(Head(s), e) THEN <<Head(s)>> \o InsertByKey(Tail(s), e)
    ELSE <<e>> \o s

\* line 110: outline.sort(key=lambda x: (x['page'], -x['y0'])), a stable sort
RECURSIVE SortOutline(_)
SortOutline(outline) ==
    IF outline = <<>> THEN <<>>
    ELSE InsertByKey(SortOutline(SubSeq(outline, 1, Len(outline) - 1)),
                     outline[Len(outline)])

\* lines 111-112: item.pop('y0', None) for every item
StripY0(outline) ==
    [i \in 1..Len(outline) |->
        [level |-> outline[i].level, text |-> outline[i].text, page |-> outline[i].page]]

\* line 114: file_name.replace("_", " ").replace(".pdf", "").title()
TitleFromFileName(file_name) ==
    TitleCase(RemoveAll(ReplaceChar(file_name, "_", " "), <<".", "p", "d", "f">>))

\* lines 114-115
ReturnedRecord(st, sorted, file_name) ==
    [title |-> IF Truthy(st.title_candidate) THEN st.title_candidate[1]
               ELSE TitleFromFileName(file_name),
     outline |-> StripY0(sorted)]

\* an except clause returning what had been accumulated
Fallback_KeepsPartial(st, file_name) ==
    [title |-> IF Truthy(st.title_candidate) THEN st.title_candidate[1] ELSE file_name,
     outline |-> StripY0(st.outline)]

\* line 119: what the except clause returns, whatever was accumulated in st
Fallback(st, file_name) == [title |-> file_name, outline |-> <<>>]

Min(a, b) == IF a <= b THEN a ELSE b
Max(a, b) == IF a >= b THEN a ELSE b

\* list(pages) without the slice
FirstPages_All(all_pages, n) == all_pages

\* line 80: list(pages)[:max_pages]
FirstPages(all_pages, n) ==
    IF n >= 0 THEN SubSeq(all_pages, 1, Min(n, Len(all_pages)))
    ELSE SubSeq(all_pages, 1, Max(0, Len(all_pages) + n))

\* line 87: the groups of one page, with the default y_thresh
PageGroups(layout) == group_boxes_by_y(Boxes(layout), Y_THRESHOLD)

\* lines 87-108 for one page
RECURSIVE FoldGroups(_, _, _)
FoldGroups(st, gs, n) ==
    IF gs = <<>> THEN st ELSE FoldGroups(ProcessGroup(st, Head(gs), n), Tail(gs), n)

\* lines 80-108 for the pages from index n (0-based) on
RECURSIVE FoldPages(_, _, _)
FoldPages(st, layouts, n) ==
    IF layouts = <<>> THEN st
    ELSE FoldPages(FoldGroups(st, PageGroups(Head(layouts)), n), Tail(layouts), n + 1)

\* lines 72-119 as one call; file_bytes is [malformed |-> extract_pages raises,
\* pages |-> the layouts it yields otherwise]
extract_pdfminer_outline(file_bytes, file_name_arg, max_pages_arg) ==
    IF file_bytes.malformed THEN Fallback(InitialLoopState, file_name_arg)
    ELSE LET st == FoldPages(InitialLoopState,
                             FirstPages(file_bytes.pages, max_pages_arg), 0)
         IN  ReturnedRecord(st, SortOutline(st.outline), file_name_arg)

(***************************************************************************)
(* Inputs.                                                                 *)
(***************************************************************************)
Chars_Intro == <<"I","n","t","r","o","\n">>
Chars_Numeric == <<"1","2","-","3">>
Chars_Table == <<"T","a","b","l","e"," ">>
Chars_Note == <<"N","o","t","e">>
Chars_Scope == <<" ","S","c","o","p","e">>
Chars_Short == <<"a","b">>

\* the text elements a page layout is made of
ElementPool ==
    { [text |-> Chars_Intro,   sizes |-> <<18>>,     y0 |-> 100],
      [text |-> Chars_Numeric, sizes |-> <<14>>,     y0 |-> 94],
      [text |-> Chars_Table,   sizes |-> <<12>>,     y0 |-> 80],
      [text |-> Chars_Scope,   sizes |-> <<16, 12>>, y0 |-> 66],
      [text |-> Chars_Note,    sizes |-> <<10>>,     y0 |-> 60],
      [text |-> Chars_Short,   sizes |-> <<9>>,      y0 |-> 94] }

\* the documents of n pages holding at most k elements
RECURSIVE DocsWith(_, _)
DocsWith(n, k) ==
    IF n = 0 THEN { <<>> }
    ELSE UNION { { <<p>> \o d : p \in [1..j -> ElementPool], d \in DocsWith(n - 1, k - j) }
                 : j \in 0..k }

Documents == UNION { DocsWith(n, MaxFragments) : n \in 0..MaxPages }

FileNames == { <<"m","y","_","d","o","c",".","p","d","f">> }

\* the values max_pages is called with: the default and one that cuts
MaxPagesArgs == { 1, MAX_PAGES }

(***************************************************************************)
(* State.                                                                  *)
(***************************************************************************)
VARIABLES
    \* extract_pdfminer_outline, run step by step
    pages,            \* what extract_pages yields: a sequence of page layouts
    file_name, max_pages,
    pc,               \* "pages": at the head of the page loop; "groups": in the loop
                      \* over a page's groups; "done": returned at line 115;
                      \* "failed": returned at line 119
    page_num,         \* the enumerate index of the page at hand
    groups,           \* the groups of that page still to visit
    outline, title_candidate, largest_size, is_first_text,
    result,           \* the returned record, once returned
    \* group_boxes_by_y as a function
    g_boxes, g_y_thresh, g_pc, g_groups,
    \* get_heading_level as a function
    l_sizes, l_pc, l_levels,
    \* process_pdfs
    mkdir_ok, pdf_files, b_pc, file_idx, file_bytes, b_result, output_dir

extractVars == << pages, file_name, max_pages, pc, page_num, groups, outline,
                  title_candidate, largest_size, is_first_text, result >>
groupVars == << g_boxes, g_y_thresh, g_pc, g_groups >>
levelVars == << l_sizes, l_pc, l_levels >>
batchVars == << mkdir_ok, pdf_files, b_pc, file_idx, file_bytes, b_result, output_dir >>
vars == << extractVars, groupVars, levelVars, batchVars >>

NoResult == [title |-> <<>>, outline |-> <<>>]

\* the parts of the state a specification does not use
ExtractIdle ==
    /\ pages = <<>> /\ file_name = <<>> /\ max_pages = MAX_PAGES
    /\ pc = "idle" /\ page_num = 0 /\ groups = <<>>
    /\ outline = <<>> /\ title_candidate = None /\ largest_size = Rat(0, 1)
    /\ is_first_text = TRUE /\ result = NoResult
GroupIdle == g_boxes = <<>> /\ g_y_thresh = Y_THRESHOLD /\ g_pc = "idle" /\ g_groups = <<>>
LevelIdle == l_sizes = <<>> /\ l_pc = "idle" /\ l_levels = <<>>
BatchIdle ==
    /\ mkdir_ok = TRUE /\ pdf_files = <<>> /\ b_pc = "idle" /\ file_idx = 0
    /\ file_bytes = [malformed |-> FALSE, pages |-> <<>>] /\ b_result = NoResult
    /\ output_dir = {}

(***************************************************************************)
(* extract_pdfminer_outline, step by step.                                 *)
(***************************************************************************)
Init ==
    /\ pages \in Documents
    /\ file_name \in FileNames
    /\ max_pages \in MaxPagesArgs
    /\ pc = "pages"
    /\ page_num = 0
    /\ groups = <<>>
    /\ outline = InitialLoopState.outline
    /\ title_candidate = InitialLoopState.title_candidate
    /\ largest_size = InitialLoopState.largest_size
    /\ is_first_text = InitialLoopState.is_first_text
    /\ result = NoResult
    /\ GroupIdle /\ LevelIdle /\ BatchIdle

LoopState ==
    [outline |-> outline, title_candidate |-> title_candidate,
     largest_size |-> largest_size, is_first_text |-> is_first_text]

\* line 80: the pages the loop runs over
LoopPages == FirstPages(pages, max_pages)

\* lines 80-87: the loop takes page page_num and groups its boxes
NextPage ==
    /\ pc = "pages"
    /\ page_num < Len(LoopPages)
    /\ LET gs == PageGroups(LoopPages[page_num + 1])
       IN  IF gs = <<>>
           THEN /\ page_num' = page_num + 1
                /\ UNCHANGED << pc, groups >>
           ELSE /\ groups' = gs
                /\ pc' = "groups"
                /\ UNCHANGED page_num
    /\ UNCHANGED << pages, file_name, max_pages, outline, title_candidate,
                    largest_size, is_first_text, result >>
    /\ UNCHANGED << groupVars, levelVars, batchVars >>

\* lines 88-108: one pass of the loop over the groups
ProcessGroupStep ==
    /\ pc = "groups"
    /\ groups # <<>>
    /\ LET st == ProcessGroup(LoopState, Head(groups), page_num)
       IN  /\ outline' = st.outline
           /\ title_candidate' = st.title_candidate
           /\ largest_size' = st.largest_size
           /\ is_first_text' = st.is_first_text
    /\ groups' = Tail(groups)
    /\ IF Tail(groups) = <<>>
       THEN pc' = "pages" /\ page_num' = page_num + 1
       ELSE UNCHANGED << pc, page_num >>
    /\ UNCHANGED << pages, file_name, max_pages, result >>
    /\ UNCHANGED << groupVars, levelVars, batchVars >>

\* lines 110-115: after the last page; outline keeps the list as sorted at line 110
Finish ==
    /\ pc = "pages"
    /\ page_num >= Len(LoopPages)
    /\ outline' = SortOutline(outline)
    /\ result' = ReturnedRecord(LoopState, outline', file_name)
    /\ pc' = "done"
    /\ UNCHANGED << pages, file_name, max_pages, page_num, groups, title_candidate,
                    largest_size, is_first_text >>
    /\ UNCHANGED << groupVars, levelVars, batchVars >>

\* lines 117-119: an exception raised anywhere in the try block
Fail ==
    /\ pc \in { "pages", "groups" }
    /\ result' = Fallback(LoopState, file_name)
    /\ pc' = "failed"
    /\ UNCHANGED << pages, file_name, max_pages, page_num, groups, outline,
                    title_candidate, largest_size, is_first_text >>
    /\ UNCHANGED << groupVars, levelVars, batchVars >>

Next == NextPage \/ ProcessGroupStep \/ Finish \/ Fail

Spec == Init /\ [][Next]_vars

(***************************************************************************)
(* group_boxes_by_y as a function of its arguments.                        *)
(***************************************************************************)
\* boxes at four heights, 100, 94 and 88 a chain of steps of 6
GroupBoxPool ==
    { [text |-> t, size |-> Rat(12, 1), y0 |-> y] :
        t \in { <<"a">>, <<"b">> }, y \in { 100, 94, 88, 79 } }

GroupInputs == UNION { [1..n -> GroupBoxPool] : n \in 0..MaxGroupBoxes }

GroupThresholds == { 0, Y_THRESHOLD }

InitGroup ==
    /\ g_boxes \in GroupInputs
    /\ g_y_thresh \in GroupThresholds
    /\ g_pc = "call"
    /\ g_groups = <<>>
    /\ ExtractIdle /\ LevelIdle /\ BatchIdle

\* lines 43-61, called once
ApplyGroup ==
    /\ g_pc = "call"
    /\ g_groups' = group_boxes_by_y(g_boxes, g_y_thresh)
    /\ g_pc' = "returned"
    /\ UNCHANGED << g_boxes, g_y_thresh >>
    /\ UNCHANGED << extractVars, levelVars, batchVars >>

NextGroup == ApplyGroup

SpecGroup == InitGroup /\ [][NextGroup]_vars

(***************************************************************************)
(* get_heading_level as a function of its argument.                        *)
(***************************************************************************)
\* average sizes: wholes up to MaxSizeNum and halves up to MaxSizeNum / 2
LevelSizes == { Rat(n, d) : n \in 0..MaxSizeNum, d \in { 1, 2 } }

InitLevel ==
    /\ l_sizes \in { <<a, b>> : a \in LevelSizes, b \in LevelSizes }
    /\ l_pc = "call"
    /\ l_levels = <<>>
    /\ ExtractIdle /\ GroupIdle /\ BatchIdle

\* lines 63-65, once for each of the two sizes
ApplyLevel ==
    /\ l_pc = "call"
    /\ l_levels' = << get_heading_level(l_sizes[1]), get_heading_level(l_sizes[2]) >>
    /\ l_pc' = "returned"
    /\ UNCHANGED l_sizes
    /\ UNCHANGED << extractVars, groupVars, batchVars >>

NextLevel == ApplyLevel

SpecLevel == InitLevel /\ [][NextLevel]_vars

(***************************************************************************)
(* process_pdfs.                                                           *)
(***************************************************************************)
Page_Headings ==
    << [text |-> Chars_Scope, sizes |-> <<16, 12>>, y0 |-> 66],
       [text |-> Chars_Intro, sizes |-> <<18>>, y0 |-> 100] >>

\* what reading a file yields: bytes extract_pages raises on, or a document
BatchContents ==
    { [malformed |-> TRUE, pages |-> <<>>],
      [malformed |-> FALSE, pages |-> << Page_Headings, Page_Headings >>] }

BatchNames ==
    { <<"a",".","p","d","f">>, <<"b","_","c",".","p","d","f">>, <<"d",".","p","d","f">> }

\* a file of the input directory: whether open(..., "rb") succeeds on it, what it
\* holds, and whether its output file can be opened and written
BatchFiles ==
    [name : BatchNames, readable : BOOLEAN, bytes : BatchContents, writable : BOOLEAN]

\* what glob("*.pdf") may list: files of distinct names, in any order
Batches ==
    { b \in UNION { [1..n -> BatchFiles] : n \in 0..MaxDocs } :
        \A i, j \in 1..Len(b) : i # j => b[i].name # b[j].name }

\* pdf_file.stem: the name without its last suffix
Stem(name) == SubSeq(name, 1, Len(name) - 4)
\* line 148
JsonFileName(name) ==
    Stem(name) \o <<"_","o","u","t","l","i","n","e",".","j","s","o","n">>

InitBatch ==
    /\ mkdir_ok \in BOOLEAN
    /\ pdf_files \in Batches
    /\ b_pc = "start"
    /\ file_idx = 0
    /\ file_bytes = [malformed |-> FALSE, pages |-> <<>>]
    /\ b_result = NoResult
    /\ output_dir = {}
    /\ ExtractIdle /\ GroupIdle /\ LevelIdle

\* lines 125-138: the directories, the listing, and the entry into the loop
Setup ==
    /\ b_pc = "start"
    /\ IF ~mkdir_ok THEN b_pc' = "error" /\ UNCHANGED file_idx
       ELSE IF pdf_files = <<>> THEN b_pc' = "done" /\ UNCHANGED file_idx
       ELSE b_pc' = "read" /\ file_idx' = 1
    /\ UNCHANGED << mkdir_ok, pdf_files, file_bytes, b_result, output_dir >>
    /\ UNCHANGED << extractVars, groupVars, levelVars >>

\* lines 141-142; a failure leaves the loop for the except clause of line 154
ReadFile ==
    /\ b_pc = "read"
    /\ IF pdf_files[file_idx].readable
       THEN file_bytes' = pdf_files[file_idx].bytes /\ b_pc' = "extract"
       ELSE b_pc' = "error" /\ UNCHANGED file_bytes
    /\ UNCHANGED << mkdir_ok, pdf_files, file_idx, b_result, output_dir >>
    /\ UNCHANGED << extractVars, groupVars, levelVars >>

\* line 145
Extract ==
    /\ b_pc = "extract"
    /\ b_result' = extract_pdfminer_outline(file_bytes, pdf_files[file_idx].name, MAX_PAGES)
    /\ b_pc' = "write"
    /\ UNCHANGED << mkdir_ok, pdf_files, file_idx, file_bytes, output_dir >>
    /\ UNCHANGED << extractVars, groupVars, levelVars >>

\* lines 148-152, and the step of the loop to the next file or out of it
WriteFile ==
    /\ b_pc = "write"
    /\ IF pdf_files[file_idx].writable
       THEN /\ output_dir' = output_dir \cup
                   { [name |-> JsonFileName(pdf_files[file_idx].name), data |-> b_result] }
            /\ IF file_idx < Len(pdf_files)
               THEN file_idx' = file_idx + 1 /\ b_pc' = "read"
               ELSE b_pc' = "done" /\ UNCHANGED file_idx
       ELSE b_pc' = "error" /\ UNCHANGED << output_dir, file_idx >>
    /\ UNCHANGED << mkdir_ok, pdf_files, file_bytes, b_result >>
    /\ UNCHANGED << extractVars, groupVars, levelVars >>

NextBatch == Setup \/ ReadFile \/ Extract \/ WriteFile

SpecBatch == InitBatch /\ [][NextBatch]_vars

(***************************************************************************)
(* Properties of extract_pdfminer_outline (Spec).                          *)
(***************************************************************************)
\* the clusters of page p (1-based) of the document, top to bottom
ClustersOf(p) == PageGroups(pages[p])
\* the pages the call covers
CoveredPages == 1..Min(Len(pages), max_pages)
PassesTitleTest(g) == is_potential_title(MergedText(g), AvgSize(g))
PassesHeadingTest(g) == is_heading(MergedText(g), AvgSize(g))
\* the clusters of page 1 that pass the title test, by position
TitleCandidates ==
    IF 1 \in CoveredPages
    THEN { k \in 1..Len(ClustersOf(1)) : PassesTitleTest(ClustersOf(1)[k]) }
    ELSE {}
\* the position on page 1 of the first of them, 0 when there is none
FirstTitleCandidate ==
    IF TitleCandidates = {} THEN 0
    ELSE CHOOSE k \in TitleCandidates : \A j \in TitleCandidates : k <= j

\* C1: on the non-failure path the entries are in page order and, within a page,
\* top to bottom by the min_y0 of their clusters; the returned list is that list
\* with y0 dropped, and each y0 is the min_y0 of a cluster of the entry's page
\* carrying the entry's text.
C1_OutlineOrdered ==
    pc = "done" =>
        /\ \A i, j \in 1..Len(outline) :
              i < j => /\ outline[i].page <= outline[j].page
                       /\ outline[i].page = outline[j].page
                             => outline[i].y0 >= outline[j].y0
        /\ result.outline = StripY0(outline)
        /\ \A i \in 1..Len(outline) :
              /\ outline[i].page \in 1..Len(pages)
              /\ \E k \in 1..Len(ClustersOf(outline[i].page)) :
                    /\ MergedText(ClustersOf(outline[i].page)[k]) = outline[i].text
                    /\ MinY0(ClustersOf(outline[i].page)[k]) = outline[i].y0

\* two entries of one page whose elements the layout lists bottom first, returned
\* top first
C1_Witness ==
    /\ pc = "done"
    /\ Len(pages) = 2 /\ Len(pages[2]) = 2 /\ pages[2][1].y0 < pages[2][2].y0
    /\ \E i, j \in 1..Len(outline) :
          /\ i < j /\ outline[i].page = 2 /\ outline[j].page = 2
          /\ outline[i].y0 > outline[j].y0
    /\ Len(result.outline) = Len(outline)

\* entries of two pages, the earlier page first
C1_PageOrderWitness ==
    /\ pc = "done"
    /\ \E i, j \in 1..Len(outline) : i < j /\ outline[i].page < outline[j].page

\* C2: a returned title that is not derived from the file name is the merged text
\* of the first cluster of page 1, top to bottom, that passes is_potential_title;
\* when page 1 has none (or there is no page) the title is derived from the file
\* name, whatever the later pages hold.
C2_TitleFromFirstPage ==
    pc = "done" =>
        IF FirstTitleCandidate = 0
        THEN title_candidate = None /\ result.title = TitleFromFileName(file_name)
        ELSE /\ title_candidate # None
             /\ result.title = MergedText(ClustersOf(1)[FirstTitleCandidate])

\* the title came from the second cluster of page 1, the first having failed the
\* title test
C2_Witness ==
    /\ pc = "done"
    /\ FirstTitleCandidate = 2
    /\ result.title = MergedText(ClustersOf(1)[2])
    /\ result.title # TitleFromFileName(file_name)

\* page 1 has clusters, none passes the title test, page 2 has one that does, and
\* the title is derived from the file name
C2_LaterPageWitness ==
    /\ pc = "done"
    /\ 2 \in CoveredPages
    /\ ClustersOf(1) # <<>>
    /\ FirstTitleCandidate = 0
    /\ \E k \in 1..Len(ClustersOf(2)) : PassesTitleTest(ClustersOf(2)[k])
    /\ result.title = TitleFromFileName(file_name)

\* C3 as stated: the title is only ever set by the step that visits the first
\* (topmost) cluster of page 1.
C3_OnlyTopmostClusterSetsTitle ==
    [][ title_candidate' # title_candidate
          => /\ pc = "groups" /\ page_num = 0
             /\ groups = ClustersOf(1) ]_vars

\* C3 as amended: title-seeking ends at the first cluster of page 1 that passes
\* is_potential_title. The title candidate and is_first_text change only in the
\* step that visits that cluster, which clears is_first_text; the clusters of
\* page 1 above it failed the test, and once is_first_text is clear no later
\* cluster of any page changes the title.
C3_TitleSeekingStopsAtFirstPassingCluster ==
    [][ (title_candidate' # title_candidate \/ is_first_text' # is_first_text)
          => /\ pc = "groups" /\ page_num = 0
             /\ is_first_text /\ ~is_first_text'
             /\ PassesTitleTest(Head(groups))
             /\ title_candidate' = Some(MergedText(Head(groups)))
             /\ Len(ClustersOf(1)) - Len(groups) + 1 = FirstTitleCandidate ]_vars

\* the title is locked and a later cluster that passes the title test, on page 1
\* or on a later page, has been visited and left it alone
C3_Witness ==
    /\ pc = "done"
    /\ title_candidate # None
    /\ ~is_first_text
    /\ \/ \E k \in 1..Len(ClustersOf(1)) :
             k > FirstTitleCandidate /\ PassesTitleTest(ClustersOf(1)[k])
       \/ /\ 2 \in CoveredPages
          /\ \E k \in 1..Len(ClustersOf(2)) : PassesTitleTest(ClustersOf(2)[k])

\* C5: a failure raised anywhere in the try block returns the record
\* {title: file_name, outline: []}: the file name as given, and nothing of what
\* had been accumulated.
C5_FailureReturnsFallback ==
    pc = "failed" => result = [title |-> file_name, outline |-> <<>>]

\* a failure after a title candidate and an entry were accumulated, for a file
\* name that differs from the title derived from it
C5_Witness ==
    /\ pc = "failed"
    /\ outline # <<>>
    /\ title_candidate # None
    /\ file_name # TitleFromFileName(file_name)
    /\ result.title = file_name

\* C6: every entry's page is within 1..min(total_pages, max_pages) and its text is
\* the merged text of a cluster of that page; a page beyond the first max_pages
\* contributes nothing.
C6_PagesWithinLimit ==
    /\ \A i \in 1..Len(outline) : outline[i].page \in CoveredPages
    /\ title_candidate # None => 1 \in CoveredPages
    /\ pc = "done" =>
          /\ Len(result.outline) = Len(outline)
          /\ \A i \in 1..Len(result.outline) :
                LET e == result.outline[i]
                IN  /\ e.page \in CoveredPages
                    /\ \E k \in 1..Len(ClustersOf(e.page)) :
                          MergedText(ClustersOf(e.page)[k]) = e.text

\* the document has more pages than max_pages, a page beyond the limit holds a
\* cluster that passes the heading test, and an entry of the last covered page
\* was returned
C6_Witness ==
    /\ pc = "done"
    /\ Len(pages) > max_pages
    /\ \E k \in 1..Len(ClustersOf(max_pages + 1)) :
          PassesHeadingTest(ClustersOf(max_pages + 1)[k])
    /\ \E i \in 1..Len(result.outline) : result.outline[i].page = max_pages

\* the clusters the call visits, as <<page, position>>
VisitedClusters == { <<p, k>> \in CoveredPages \X (1..MaxFragments + 1) :
                        k <= Len(ClustersOf(p)) }
Cluster(c) == ClustersOf(c[1])[c[2]]
\* the clusters that are to produce an entry: not the one the title check
\* consumed, passing is_heading, with a level
Qualifying ==
    { c \in VisitedClusters :
        /\ c # <<1, FirstTitleCandidate>>
        /\ PassesHeadingTest(Cluster(c))
        /\ get_heading_level(AvgSize(Cluster(c))) # NoLevel }
EntryOf(c) ==
    [level |-> get_heading_level(AvgSize(Cluster(c))),
     text |-> MergedText(Cluster(c)), page |-> c[1]]

\* C9: on the non-failure path the returned outline holds, for every value, as
\* many entries as there are qualifying clusters with that level, merged text
\* and page: one entry per qualifying cluster, none for the cluster the title
\* check consumed, none dropped or duplicated.
C9_OneEntryPerQualifyingCluster ==
    pc = "done" =>
        /\ Len(result.outline) = Cardinality(Qualifying)
        /\ \A c \in Qualifying :
              Cardinality({ i \in 1..Len(result.outline) : result.outline[i] = EntryOf(c) })
                = Cardinality({ d \in Qualifying : EntryOf(d) = EntryOf(c) })

\* the cluster consumed by the title check also passes is_heading, and entries of
\* other clusters were returned
C9_Witness ==
    /\ pc = "done"
    /\ FirstTitleCandidate # 0
    /\ PassesHeadingTest(ClustersOf(1)[FirstTitleCandidate])
    /\ Len(result.outline) >= 2

\* C10: every visited cluster that passes is_heading has a level, and every entry,
\* accumulated or returned, has level H1, H2 or H3, never H4.
C10_NoH4Entry ==
    /\ \A i \in 1..Len(outline) : outline[i].level \in { "H1", "H2", "H3" }
    /\ \A i \in 1..Len(result.outline) : result.outline[i].level \in { "H1", "H2", "H3" }
    /\ pc = "done" =>
          \A c \in VisitedClusters :
              PassesHeadingTest(Cluster(c))
                  => get_heading_level(AvgSize(Cluster(c))) # NoLevel

\* a cluster of page 2 whose size resolves to H4 and whose text is a heading's was
\* visited, and no entry was returned for it
C10_Witness ==
    /\ pc = "done"
    /\ 2 \in CoveredPages
    /\ \E k \in 1..Len(ClustersOf(2)) :
          /\ get_heading_level(AvgSize(ClustersOf(2)[k])) = "H4"
          /\ MergedText(ClustersOf(2)[k]) = Chars_Note
          /\ \A i \in 1..Len(result.outline) :
                result.outline[i].text # MergedText(ClustersOf(2)[k])

(***************************************************************************)
(* Properties of get_heading_level (SpecLevel).                            *)
(***************************************************************************)
\* the H-number of a level
HNumber(level) ==
    CASE level = "H1" -> 1 [] level = "H2" -> 2 [] level = "H3" -> 3 [] level = "H4" -> 4

\* the thresholds of the table that are <= size
ThresholdsAtMost(size) ==
    { FONT_THRESHOLDS[i].size : i \in 1..Len(FONT_THRESHOLDS) } \cap
    { t \in 0..MaxSizeNum : RatGE(size, Rat(t, 1)) }

\* level is what the table says for size: no level below every threshold, else
\* the level of the largest threshold that is <= size
IsLargestThresholdLevel(size, level) ==
    IF ThresholdsAtMost(size) = {} THEN level = NoLevel
    ELSE /\ level # NoLevel
         /\ Threshold(level) \in ThresholdsAtMost(size)
         /\ \A t \in ThresholdsAtMost(size) : t <= Threshold(level)

\* C7: the level of a size is the table entry with the largest threshold <= the
\* size (none below every threshold), and of two sizes s1 <= s2 that both have a
\* level, s2's is the same or a higher heading (an H-number no greater).
C7_LevelMonotonic ==
    l_pc = "returned" =>
        /\ IsLargestThresholdLevel(l_sizes[1], l_levels[1])
        /\ IsLargestThresholdLevel(l_sizes[2], l_levels[2])
        /\ (RatGE(l_sizes[2], l_sizes[1]) /\ l_levels[1] # NoLevel /\ l_levels[2] # NoLevel)
              => HNumber(l_levels[2]) <= HNumber(l_levels[1])

\* a smaller size at H4 and a larger, fractional one at H2
C7_Witness ==
    /\ l_pc = "returned"
    /\ RatGT(l_sizes[2], l_sizes[1])
    /\ l_levels[1] = "H4"
    /\ l_levels[2] = "H2"
    /\ l_sizes[2] = Rat(29, 2)

(***************************************************************************)
(* Properties of group_boxes_by_y (SpecGroup).                             *)
(***************************************************************************)
RECURSIVE Flatten(_)
Flatten(gs) == IF gs = <<>> THEN <<>> ELSE Head(gs) \o Flatten(Tail(gs))

Count(s, x) == Cardinality({ i \in 1..Len(s) : s[i] = x })

\* the index of the group holding position i of the flattened output
RECURSIVE GroupOfPosition(_, _)
GroupOfPosition(gs, i) ==
    IF i <= Len(Head(gs)) THEN 1 ELSE 1 + GroupOfPosition(Tail(gs), i - Len(Head(gs)))

\* C8: the groups partition the input (each box as often as in the input), no
\* group is empty, the groups in order run y0-descending, and two boxes adjacent
\* in that order share a group exactly when their y0 differ by at most y_thresh;
\* empty input gives no group.
C8_GroupsPartitionByChainedProximity ==
    g_pc = "returned" =>
        LET flat == Flatten(g_groups)
        IN  /\ Len(flat) = Len(g_boxes)
            /\ \A b \in GroupBoxPool : Count(flat, b) = Count(g_boxes, b)
            /\ \A k \in 1..Len(g_groups) : g_groups[k] # <<>>
            /\ g_boxes = <<>> => g_groups = <<>>
            /\ \A i \in 1..Len(flat) - 1 :
                  /\ flat[i].y0 >= flat[i + 1].y0
                  /\ GroupOfPosition(g_groups, i) = GroupOfPosition(g_groups, i + 1)
                        <=> Abs(flat[i].y0 - flat[i + 1].y0) <= g_y_thresh

\* y0 = 100, 94, 88 with threshold 8, given out of order: one group, whose first
\* and last boxes are 12 apart
C8_Witness ==
    /\ g_pc = "returned"
    /\ g_y_thresh = Y_THRESHOLD
    /\ Len(g_boxes) = 3
    /\ g_boxes[1].y0 = 94 /\ g_boxes[2].y0 = 100 /\ g_boxes[3].y0 = 88
    /\ Len(g_groups) = 1
    /\ g_groups[1][1].y0 - g_groups[1][3].y0 = 12

(***************************************************************************)
(* Properties of process_pdfs (SpecBatch).                                 *)
(***************************************************************************)
\* a file whose handling does not fail anywhere
HandledWithoutFailure(f) == f.readable /\ ~f.bytes.malformed /\ f.writable

\* C4: when process_pdfs has ended, every listed file whose own handling does not
\* fail has its output record in the output directory, whatever happened to the
\* other files (the output directory itself being usable).
C4_FailureDoesNotBlockOthers ==
    (b_pc \in { "done", "error" } /\ mkdir_ok) =>
        \A i \in 1..Len(pdf_files) :
            HandledWithoutFailure(pdf_files[i])
                => \E o \in output_dir : o.name = JsonFileName(pdf_files[i].name)

=============================================================================
